---------------------------- MODULE Spec2Model ----------------------------
(***************************************************************************)
(* Docker Monitoring Hub (src/app.py): a Streamlit script that is run from *)
(* top to bottom on every rerun.  The only state that survives a rerun is  *)
(* st.session_state.history and the values of the sidebar widgets.         *)
(*                                                                         *)
(* Three specifications are given:                                         *)
(*   Spec     the script runs of one session (controls, listing, parallel  *)
(*            fetch, history update, rendering, sleep-and-rerun);          *)
(*   SpecCpu  calculate_cpu_percent applied to one raw stats snapshot;     *)
(*   SpecFmt  format_bytes applied to one byte count.                      *)
(***************************************************************************)
EXTENDS Integers, Sequences, FiniteSets, TLC

VARIABLES
    history,         \* st.session_state.history: container id -> series
    history_window,  \* script variable history_window (line 103)
    auto_refresh,    \* script variable auto_refresh (line 104)
    w_window,        \* value of the "History Window" slider in the browser
    w_auto,          \* value of the "Auto-Refresh" checkbox in the browser
    w_clear,         \* "Clear History" was clicked and not yet read
    w_restart,       \* containers whose "Restart" button was clicked
    w_dirty,         \* a widget event is waiting for a script run
    runtime_status,  \* the Docker daemon: container id -> status
    containers,      \* client.containers.list(all=True) of this run
    pending,         \* get_container_stats calls still in the thread pool
    fetched,         \* what container.stats(stream=False) did per container
    results,         \* results of executor.map, per running container
    shown,           \* the cpu series each card displays
    clock,           \* datetime.now(), one tick per collection
    pc,              \* position of the script run
    n_events,        \* disturbances so far
    arrived,         \* history variable: samples appended since the series was empty
    wfixed,          \* history variable: the window did not change since then
    cleared,         \* history variable: the last Clear History processed
    cpu_d, cpu_res, cpu_pc,      \* SpecCpu: snapshot, result, position
    fmt_size, fmt_res, fmt_pc    \* SpecFmt: byte count, result, position

mainvars == <<history, history_window, auto_refresh, w_window, w_auto, w_clear,
              w_restart, w_dirty, runtime_status, containers, pending, fetched,
              results, shown, clock, pc, n_events, arrived, wfixed,
              cleared>>
cpuvars == <<cpu_d, cpu_res, cpu_pc>>
fmtvars == <<fmt_size, fmt_res, fmt_pc>>
harness == <<cpuvars, fmtvars>>
vars == <<mainvars, harness>>

--------------------------------------------------------------------------
(* Bounds of the model.                                                    *)

\* Collections of one behaviour after its initial state.
MaxCycles == 3
\* Disturbances of one behaviour: widget events (slider, checkbox, buttons),
\* daemon events, and fetches that raise or deliver an unusable snapshot.
MaxEvents == 2
\* Largest value of a cumulative counter in SpecCpu.
MaxCounter == 2
\* SpecFmt: byte counts 0..MaxProbe and 1024^k - FmtSpread .. 1024^k + FmtSpread.
MaxProbe == 64
FmtSpread == 2

(* Program constants.                                                      *)
MinWindow == 10
MaxWindow == 100
DefaultWindow == 30

--------------------------------------------------------------------------
(* Values.                                                                 *)

\* Python None, and a value that is not None.
None == <<>>
Some(x) == <<x>>

\* dict.get(key, default) on a key that may be absent (<<>>) or present (<<v>>).
DictGet(opt, default) == IF opt = <<>> THEN default ELSE opt[1]

\* A Python float that is the quotient of two integers, kept exact.
Ratio(n, d) == [num |-> n, den |-> d]

Min(a, b) == IF a < b THEN a ELSE b

\* Python s[-n:].
LastN(s, n) ==
    IF n = 0 \/ n >= Len(s) THEN s ELSE SubSeq(s, Len(s) - n + 1, Len(s))

\* Python s[:n].
FirstN(s, n) == IF n >= Len(s) THEN s ELSE SubSeq(s, 1, n)

--------------------------------------------------------------------------
(* calculate_cpu_percent                                                   *)

\* The variant that tests only that the division is defined.
calculate_cpu_percent_nonzero(d) ==
    LET cpu_count == IF d.percpu_len > 0 THEN d.percpu_len
                     ELSE DictGet(d.online_cpus, 1)
        cpu_delta == DictGet(d.total_usage, 0) - DictGet(d.pre_total_usage, 0)
        system_delta == DictGet(d.system_cpu_usage, 0)
                        - DictGet(d.pre_system_cpu_usage, 0)
    IN  IF system_delta # 0
        THEN Ratio(cpu_delta * cpu_count * 100, system_delta)
        ELSE Ratio(0, 1)

\* d: the cpu part of a stats dictionary.  percpu_len is len(percpu_usage),
\* 0 when the list is absent or empty; the other fields are absent or present.
\* The result is the float cpu_percent as an exact quotient; 0.0 is 0/1.
calculate_cpu_percent(d) ==
    LET cpu_count == IF d.percpu_len > 0 THEN d.percpu_len
                     ELSE DictGet(d.online_cpus, 1)
        cpu_total == DictGet(d.total_usage, 0)
        precpu_total == DictGet(d.pre_total_usage, 0)
        system_cpu == DictGet(d.system_cpu_usage, 0)
        presystem_cpu == DictGet(d.pre_system_cpu_usage, 0)
        cpu_delta == cpu_total - precpu_total
        system_delta == system_cpu - presystem_cpu
    IN  IF system_delta > 0 /\ cpu_delta > 0
        THEN Ratio(cpu_delta * cpu_count * 100, system_delta)
        ELSE Ratio(0, 1)

--------------------------------------------------------------------------
(* format_bytes                                                            *)

power == 2 ^ 10

power_labels == [n \in 0..4 |-> <<"", "K", "M", "G", "T">>[n + 1]]

\* The while loop of format_bytes.  size is num/den with den = power^n, which
\* is exact in a float for the byte counts checked here.  num > power * den is
\* written without the product, which would leave the integers TLC has.
RECURSIVE ScaleLoop(_, _, _)
ScaleLoop(num, den, n) ==
    IF (num \div den > power) \/ (num \div den = power /\ num % den > 0)
    THEN ScaleLoop(num, den * power, n + 1)
    ELSE [num |-> num, den |-> den, n |-> n]

\* f"{num/den:.2f}": two decimals, the exact value rounded half to even.
Fixed2(num, den) ==
    LET whole == num \div den
        r == (num % den) * 100
        q == r \div den
        t == r % den
        up == IF 2 * t > den \/ (2 * t = den /\ q % 2 = 1) THEN 1 ELSE 0
        h == q + up
        w2 == IF h = 100 THEN whole + 1 ELSE whole
        h2 == IF h = 100 THEN 0 ELSE h
    IN  ToString(w2) \o "." \o (IF h2 < 10 THEN "0" ELSE "") \o ToString(h2)

\* The result string, or "KeyError" when n is no key of power_labels.
format_bytes(size) ==
    LET s == ScaleLoop(size, 1, 0)
    IN  IF s.n \in DOMAIN power_labels
        THEN Fixed2(s.num, s.den) \o " " \o power_labels[s.n] \o "B"
        ELSE "KeyError"

--------------------------------------------------------------------------
(* Containers and raw stats.                                               *)

\* The containers of the daemon, in the order containers.list returns them.
ContainerOrder == <<"c1", "c2">>
CIDs == {ContainerOrder[i] : i \in DOMAIN ContainerOrder}

\* Slider positions of "History Window" that are modelled.
WindowChoices == {w \in {MinWindow, MinWindow + 1, DefaultWindow} : w <= MaxWindow}

Kinds == {"ok", "limit0", "nolimit"}

\* The stats dictionary the daemon returns at tick t.  The cumulative cpu
\* counter advances by t % 3 (not at all at every third tick) and the memory
\* in use is t MiB, so that the samples of different ticks differ.
StatsAt(kind, t) ==
    [cpu |-> [percpu_len |-> 2, online_cpus |-> <<>>,
              total_usage |-> <<100 + (t % 3)>>, pre_total_usage |-> <<100>>,
              system_cpu_usage |-> <<2000>>, pre_system_cpu_usage |-> <<1000>>],
     mem_usage |-> <<t * 1024 * 1024>>,
     mem_limit |-> CASE kind = "ok" -> <<64 * 1024 * 1024>>
                     [] kind = "limit0" -> <<0>>
                     [] OTHER -> <<>>]

\* What container.stats(stream=False) does: it raises, or returns a dictionary.
Raises == [ok |-> FALSE, stats |-> <<>>]
Returns(stats) == [ok |-> TRUE, stats |-> <<stats>>]
FetchOutcomes(t) == {Raises} \cup {Returns(StatsAt(k, t)) : k \in Kinds}

\* get_container_stats: None, or the sample dictionary.  Every exception of
\* the try block (the fetch raising, KeyError on a missing memory field,
\* ZeroDivisionError on a limit of 0) ends in "return None".
get_container_stats(status, short_id, fetch, now) ==
    IF status # "running" THEN None
    ELSE IF ~fetch.ok THEN None
    ELSE LET stats == fetch.stats[1]
             cpu == calculate_cpu_percent(stats.cpu)
         IN  IF stats.mem_usage = <<>> \/ stats.mem_limit = <<>> THEN None
             ELSE IF stats.mem_limit[1] = 0 THEN None
             ELSE Some([id |-> short_id,
                        cpu |-> cpu,
                        memory_mb |-> Ratio(stats.mem_usage[1], 1024 * 1024),
                        memory_percent |-> Ratio(stats.mem_usage[1] * 100,
                                                 stats.mem_limit[1]),
                        timestamp |-> now])

--------------------------------------------------------------------------
(* The history.                                                            *)

EmptyHistory == [c \in {} |-> <<>>]
EmptySeries == [cpu |-> <<>>, memory |-> <<>>, timestamps |-> <<>>]

\* st.session_state.history.get(cid, {}): no entry reads as no data.
HistoryGet(hist, cid) == IF cid \in DOMAIN hist THEN hist[cid] ELSE EmptySeries

\* "Clear History": the value assigned to st.session_state.history.
ClearedKeepsKeys(hist) == [c \in DOMAIN hist |-> [hist[c] EXCEPT !.cpu = <<>>]]
ClearedHistory(hist) == EmptyHistory

\* "Trim History": the slice taken of each list.
TrimFromBack(s, W) == FirstN(s, W)
Trim(s, W) == LastN(s, W)

\* The variant that records a zero for a container without a result.
AppendResultZeroFill(hist, cid, res, W) ==
    LET h0 == HistoryGet(hist, cid)
        h1 == [cpu |-> Append(h0.cpu, IF res = None THEN Ratio(0, 1) ELSE res[1].cpu),
               memory |-> Append(h0.memory,
                                 IF res = None THEN Ratio(0, 1) ELSE res[1].memory_mb),
               timestamps |-> Append(h0.timestamps,
                                     IF res = None THEN 0 ELSE res[1].timestamp)]
    IN  [c \in DOMAIN hist \cup {cid} |-> IF c = cid THEN h1 ELSE hist[c]]

\* One iteration of "for res in results" (lines 121-136); res is the result
\* of the running container cid.
AppendResult(hist, cid, res, W) ==
    IF res = None THEN hist
    ELSE LET key == res[1].id
             h0 == HistoryGet(hist, key)
             h1 == [cpu |-> Append(h0.cpu, res[1].cpu),
                    memory |-> Append(h0.memory, res[1].memory_mb),
                    timestamps |-> Append(h0.timestamps, res[1].timestamp)]
             h2 == IF Len(h1.cpu) > W
                   THEN [cpu |-> Trim(h1.cpu, W),
                         memory |-> Trim(h1.memory, W),
                         timestamps |-> Trim(h1.timestamps, W)]
                   ELSE h1
         IN  [c \in DOMAIN hist \cup {key} |-> IF c = key THEN h2 ELSE hist[c]]

\* running_containers = [c for c in containers if c.status == 'running'].
running_containers(conts) ==
    SelectSeq(ContainerOrder, LAMBDA c : conts[c] = "running")

\* The loop "for res in results", over the running containers in order.
RECURSIVE UpdateHistory(_, _, _, _)
UpdateHistory(hist, running, res, W) ==
    IF running = <<>> THEN hist
    ELSE UpdateHistory(AppendResult(hist, Head(running), res[Head(running)], W),
                       Tail(running), res, W)

NoResults == [c \in CIDs |-> None]

\* The sample list a series stands for, oldest first.
Samples(h) ==
    [i \in 1..Len(h.cpu) |->
        [cpu |-> h.cpu[i], memory_mb |-> h.memory[i], timestamp |-> h.timestamps[i]]]

StoredSample(res) ==
    [cpu |-> res.cpu, memory_mb |-> res.memory_mb, timestamp |-> res.timestamp]

--------------------------------------------------------------------------
(* Initial states.                                                         *)

\* Uneventful collections that lie before the initial state.
SeedCycles == MinWindow

\* The history after the ticks 1..t of an uneventful session whose window is
\* W throughout, in which container c was running (and sampled) during the
\* last lens[c] of the SeedCycles ticks.  It is built by the update of the
\* script itself, so every initial state is one the program reaches.
RECURSIVE SeedHistory(_, _, _)
SeedHistory(t, lens, W) ==
    IF t = 0 THEN EmptyHistory
    ELSE UpdateHistory(
             SeedHistory(t - 1, lens, W),
             ContainerOrder,
             [c \in CIDs |->
                 IF t > SeedCycles - lens[c]
                 THEN get_container_stats("running", c, Returns(StatsAt("ok", t)), t)
                 ELSE None],
             W)

\* The samples of container c that arrived during the ticks before the
\* initial state, oldest first.
SeedArrived(c, lens) ==
    [i \in 1..lens[c] |->
        StoredSample(get_container_stats(
            "running", c, Returns(StatsAt("ok", SeedCycles - lens[c] + i)),
            SeedCycles - lens[c] + i)[1])]

MainInit ==
    /\ \E lens \in [CIDs -> {0, SeedCycles}] :
          \E W \in WindowChoices :
             /\ history = SeedHistory(SeedCycles, lens, W)
             /\ history_window = W
             /\ w_window = W
             /\ arrived = [c \in CIDs |-> SeedArrived(c, lens)]
             /\ shown = [c \in CIDs |-> HistoryGet(history, c).cpu]
    /\ auto_refresh = TRUE
    /\ w_auto = TRUE
    /\ w_clear = FALSE
    /\ w_restart = {}
    /\ w_dirty = FALSE
    /\ runtime_status = [c \in CIDs |-> "running"]
    /\ containers = [c \in CIDs |-> "running"]
    /\ pending = {}
    /\ fetched = NoResults
    /\ results = NoResults
    /\ clock = SeedCycles
    /\ pc = "sleep"
    /\ n_events = 0
    /\ wfixed = [c \in CIDs |-> TRUE]
    /\ cleared = [at |-> 0, n |-> 0]

CpuIdle == /\ cpu_d = <<>> /\ cpu_res = <<>> /\ cpu_pc = "off"
FmtIdle == /\ fmt_size = 0 /\ fmt_res = "" /\ fmt_pc = "off"

Init == MainInit /\ CpuIdle /\ FmtIdle

--------------------------------------------------------------------------
(* The script run.                                                         *)

\* A rerun starts the script with fresh local variables.
FreshRun ==
    /\ pending' = {}
    /\ fetched' = NoResults
    /\ results' = NoResults

\* Lines 102-104: the widgets return the values the browser holds.
ReadWidgets ==
    /\ history_window' = w_window
    /\ auto_refresh' = w_auto
    /\ w_dirty' = FALSE

\* Line 106: the button is read at the top of a run.
ClearGuardAnywhere == w_clear
ClearGuard == w_clear /\ pc = "controls"

\* Lines 102-106, the button not pressed.
SidebarControls ==
    /\ pc = "controls"
    /\ ~w_clear
    /\ ReadWidgets
    /\ pc' = "list"
    /\ wfixed' = [c \in CIDs |-> wfixed[c] /\ (w_window = history_window \/ arrived[c] = <<>>)]
    /\ UNCHANGED <<history, w_window, w_auto, w_clear, w_restart, runtime_status,
                   containers, pending, fetched, results, shown, clock, n_events,
                   arrived, cleared,
                   harness>>

\* Lines 102-108, the button pressed: the history is replaced and the script reruns.
ClearHistory ==
    /\ ClearGuard
    /\ ReadWidgets
    /\ history' = ClearedHistory(history)
    /\ w_clear' = FALSE
    /\ pc' = "controls"
    /\ FreshRun
    /\ arrived' = [c \in CIDs |-> <<>>]
    /\ wfixed' = [c \in CIDs |-> TRUE]
    /\ cleared' = [at |-> clock,
                   n |-> Len(HistoryGet(history, "c1").cpu)
                         + Len(HistoryGet(history, "c2").cpu)]
    /\ UNCHANGED <<w_window, w_auto, w_restart, runtime_status, containers, shown,
                   clock, n_events,
                   harness>>

\* Lines 112-113.
ListContainers ==
    /\ pc = "list"
    /\ containers' = runtime_status
    /\ pc' = IF auto_refresh THEN "collect" ELSE "render"
    /\ UNCHANGED <<history, history_window, auto_refresh, w_window, w_auto, w_clear,
                   w_restart, w_dirty, runtime_status, pending, fetched, results,
                   shown, clock, n_events, arrived, wfixed, cleared,
                   harness>>

\* Lines 116-118: executor.map submits one call per running container.  The
\* pool has max_workers=10, more than the containers of ContainerOrder, so
\* every submitted call runs at once and the calls return in any order.
StartFetch ==
    /\ pc = "collect"
    /\ clock < SeedCycles + MaxCycles
    /\ clock' = clock + 1
    /\ pending' = {c \in CIDs : containers[c] = "running"}
    /\ fetched' = NoResults
    /\ results' = NoResults
    /\ pc' = "fetch"
    /\ UNCHANGED <<history, history_window, auto_refresh, w_window, w_auto, w_clear,
                   w_restart, w_dirty, runtime_status, containers, shown, n_events,
                   arrived, wfixed, cleared,
                   harness>>

\* Lines 64-86 in a pool thread: one call of get_container_stats completes.
Worker(c) ==
    /\ pc = "fetch"
    /\ c \in pending
    /\ \E o \in FetchOutcomes(clock) :
          /\ (o # Returns(StatsAt("ok", clock))) => n_events < MaxEvents
          /\ n_events' = IF o # Returns(StatsAt("ok", clock))
                         THEN n_events + 1 ELSE n_events
          /\ fetched' = [fetched EXCEPT ![c] = Some(o)]
          /\ results' = [results EXCEPT
                            ![c] = get_container_stats(containers[c], c, o, clock)]
    /\ pending' = pending \ {c}
    /\ UNCHANGED <<history, history_window, auto_refresh, w_window, w_auto, w_clear,
                   w_restart, w_dirty, runtime_status, containers, shown, clock, pc,
                   arrived, wfixed, cleared,
                   harness>>

\* Lines 117-118: the with block and list(executor.map(...)) return when
\* every submitted call has returned.
AllFetchesDoneEarly == TRUE
AllFetchesDone == pending = {}

\* Lines 121-136.
UpdateHistoryLoop ==
    /\ pc = "fetch"
    /\ AllFetchesDone
    /\ history' = UpdateHistory(history, running_containers(containers), results,
                                history_window)
    /\ arrived' = [c \in CIDs |->
                      IF containers[c] = "running" /\ results[c] # None
                      THEN Append(arrived[c], StoredSample(results[c][1]))
                      ELSE arrived[c]]
    /\ pc' = "render"
    /\ UNCHANGED <<history_window, auto_refresh, w_window, w_auto, w_clear,
                   w_restart, w_dirty, runtime_status, containers, pending, fetched,
                   results, shown, clock, n_events, wfixed, cleared,
                   harness>>

\* The cards drawn for the containers cs: a running container shows its series.
Cards(cs) ==
    [c \in CIDs |->
        IF c \in cs
        THEN (IF containers[c] = "running" THEN HistoryGet(history, c).cpu ELSE <<>>)
        ELSE shown[c]]

\* The containers whose pressed Restart button this run draws.
RestartRequested == {c \in w_restart : containers[c] # "running"}

Before(c) ==
    {ContainerOrder[i] : i \in {j \in DOMAIN ContainerOrder :
                                   \E k \in DOMAIN ContainerOrder :
                                      ContainerOrder[k] = c /\ j < k}}

\* Lines 138-227, no Restart button pressed; then lines 229-232 decide whether
\* the run sleeps or ends.
Render ==
    /\ pc = "render"
    /\ RestartRequested = {}
    /\ shown' = Cards(CIDs)
    /\ w_restart' = {}
    /\ pc' = IF auto_refresh THEN "sleep" ELSE "done"
    /\ UNCHANGED <<history, history_window, auto_refresh, w_window, w_auto, w_clear,
                   w_dirty, runtime_status, containers, pending, fetched, results,
                   clock, n_events, arrived, wfixed, cleared,
                   harness>>

\* Lines 138-225: the first card whose Restart button was pressed restarts its
\* container and reruns the script at once.
RestartContainer ==
    /\ pc = "render"
    /\ \E c \in RestartRequested :
          /\ Before(c) \cap RestartRequested = {}
          /\ runtime_status' = [runtime_status EXCEPT ![c] = "running"]
          /\ shown' = Cards(Before(c) \cup {c})
    /\ w_restart' = {}
    /\ w_dirty' = FALSE
    /\ pc' = "controls"
    /\ FreshRun
    /\ UNCHANGED <<history, history_window, auto_refresh, w_window, w_auto, w_clear,
                   containers, clock, n_events, arrived, wfixed, cleared,
                   harness>>

\* Lines 229-232: time.sleep(refresh_interval), st.rerun().
SleepAndRerun ==
    /\ pc = "sleep"
    /\ pc' = "controls"
    /\ FreshRun
    /\ UNCHANGED <<history, history_window, auto_refresh, w_window, w_auto, w_clear,
                   w_restart, w_dirty, runtime_status, containers, shown, clock,
                   n_events, arrived, wfixed, cleared,
                   harness>>

\* The script has ended (auto-refresh off); a widget event starts the next run.
WidgetRerun ==
    /\ pc = "done"
    /\ w_dirty
    /\ pc' = "controls"
    /\ FreshRun
    /\ UNCHANGED <<history, history_window, auto_refresh, w_window, w_auto, w_clear,
                   w_restart, w_dirty, runtime_status, containers, shown, clock,
                   n_events, arrived, wfixed, cleared,
                   harness>>

--------------------------------------------------------------------------
(* The user and the daemon.                                                *)

scriptvars == <<history, history_window, auto_refresh, containers, pending, fetched,
                results, shown, clock, pc, arrived, wfixed, cleared,
                cpuvars, fmtvars>>

\* A widget event changes the value the browser holds; the script sees it
\* when a run next reads the widget.  The script takes time only where it
\* blocks: in the fetch, in the sleep, and after its end.  An event arrives
\* at one of these positions.
EventArrives == n_events < MaxEvents /\ pc \in {"fetch", "sleep", "done"}

MoveWindowSlider(w) ==
    /\ EventArrives
    /\ w # w_window
    /\ w_window' = w
    /\ w_dirty' = TRUE
    /\ n_events' = n_events + 1
    /\ UNCHANGED <<scriptvars, w_auto, w_clear, w_restart, runtime_status>>

ToggleAutoRefresh ==
    /\ EventArrives
    /\ w_auto' = ~w_auto
    /\ w_dirty' = TRUE
    /\ n_events' = n_events + 1
    /\ UNCHANGED <<scriptvars, w_window, w_clear, w_restart, runtime_status>>

ClickClearHistory ==
    /\ EventArrives
    /\ ~w_clear
    /\ w_clear' = TRUE
    /\ w_dirty' = TRUE
    /\ n_events' = n_events + 1
    /\ UNCHANGED <<scriptvars, w_window, w_auto, w_restart, runtime_status>>

\* The Restart button exists on the card of a container that is not running.
ClickRestart(c) ==
    /\ EventArrives
    /\ pc # "fetch"
    /\ containers[c] # "running"
    /\ c \notin w_restart
    /\ w_restart' = w_restart \cup {c}
    /\ w_dirty' = TRUE
    /\ n_events' = n_events + 1
    /\ UNCHANGED <<scriptvars, w_window, w_auto, w_clear, runtime_status>>

\* A container stops or is started outside the dashboard.
DaemonChange(c) ==
    /\ EventArrives
    /\ runtime_status' = [runtime_status EXCEPT
                             ![c] = IF @ = "running" THEN "exited" ELSE "running"]
    /\ n_events' = n_events + 1
    /\ UNCHANGED <<scriptvars, w_window, w_auto, w_clear, w_restart, w_dirty>>

Next ==
    \/ SidebarControls
    \/ ClearHistory
    \/ ListContainers
    \/ StartFetch
    \/ \E c \in CIDs : Worker(c)
    \/ UpdateHistoryLoop
    \/ Render
    \/ RestartContainer
    \/ SleepAndRerun
    \/ WidgetRerun
    \/ \E w \in WindowChoices : MoveWindowSlider(w)
    \/ ToggleAutoRefresh
    \/ ClickClearHistory
    \/ \E c \in CIDs : ClickRestart(c)
    \/ \E c \in CIDs : DaemonChange(c)

Spec == Init /\ [][Next]_vars

--------------------------------------------------------------------------
(* SpecCpu: calculate_cpu_percent on one snapshot, and the value that      *)
(* get_container_stats and the history update store for it.                *)

\* The session variables while a function is checked on its own.
MainIdle ==
    /\ history = EmptyHistory
    /\ history_window = DefaultWindow
    /\ auto_refresh = TRUE
    /\ w_window = DefaultWindow
    /\ w_auto = TRUE
    /\ w_clear = FALSE
    /\ w_restart = {}
    /\ w_dirty = FALSE
    /\ runtime_status = [c \in CIDs |-> "running"]
    /\ containers = [c \in CIDs |-> "running"]
    /\ pending = {}
    /\ fetched = NoResults
    /\ results = NoResults
    /\ shown = [c \in CIDs |-> <<>>]
    /\ clock = 0
    /\ pc = "off"
    /\ n_events = 0
    /\ arrived = [c \in CIDs |-> <<>>]
    /\ wfixed = [c \in CIDs |-> TRUE]
    /\ cleared = [at |-> 0, n |-> 0]

\* A counter of the stats dictionary: absent, or a value.
CounterValues == {<<>>} \cup {<<v>> : v \in 0..MaxCounter}

CpuSnapshots ==
    [percpu_len : {0, 2},
     online_cpus : {<<>>, <<1>>, <<4>>},
     total_usage : CounterValues,
     pre_total_usage : CounterValues,
     system_cpu_usage : CounterValues,
     pre_system_cpu_usage : CounterValues]

InitCpu ==
    /\ MainIdle
    /\ FmtIdle
    /\ cpu_d \in CpuSnapshots
    /\ cpu_res = <<>>
    /\ cpu_pc = "ready"

\* The snapshot is normalised (line 73) and its sample is stored (lines 121-136).
CalculateCpu ==
    /\ cpu_pc = "ready"
    /\ cpu_res' = Some(calculate_cpu_percent(cpu_d))
    /\ history' = AppendResult(
                      history, "c1",
                      get_container_stats(
                          "running", "c1",
                          Returns([StatsAt("ok", 1) EXCEPT !.cpu = cpu_d]), 1),
                      history_window)
    /\ cpu_pc' = "done"
    /\ UNCHANGED <<history_window, auto_refresh, w_window, w_auto, w_clear, w_restart,
                   w_dirty, runtime_status, containers, pending, fetched, results,
                   shown, clock, pc, n_events, arrived, wfixed, cleared, cpu_d,
                   fmtvars>>

NextCpu == CalculateCpu

SpecCpu == InitCpu /\ [][NextCpu]_vars

--------------------------------------------------------------------------
(* SpecFmt: format_bytes on one byte count.                                *)

FmtSizes ==
    (0..MaxProbe)
    \cup {1536}
    \cup {power ^ k + d : k \in 1..3, d \in (0 - FmtSpread)..FmtSpread}

InitFmt ==
    /\ MainIdle
    /\ CpuIdle
    /\ fmt_size \in FmtSizes
    /\ fmt_res = ""
    /\ fmt_pc = "ready"

FormatBytes ==
    /\ fmt_pc = "ready"
    /\ fmt_res' = format_bytes(fmt_size)
    /\ fmt_pc' = "done"
    /\ UNCHANGED <<mainvars, cpuvars, fmt_size>>

NextFmt == FormatBytes

SpecFmt == InitFmt /\ [][NextFmt]_vars

--------------------------------------------------------------------------
(* Properties.                                                             *)

\* The step that processes a Clear History request.
ClearStep == w_clear /\ ~w_clear'

\* The step that ends the update loop of a collection.
UpdateStep == pc = "fetch" /\ pc' = "render"

\* container.stats raised for the running container c in this collection.
FetchFailed(c) ==
    containers[c] = "running" /\ fetched[c] # None /\ ~fetched[c][1].ok

\* container.stats returned a dictionary for the running container c.
FetchSucceeded(c) ==
    containers[c] = "running" /\ fetched[c] # None /\ fetched[c][1].ok

\* The newest timestamp of a series, 0 for an empty one.
LastStamp(h) == IF h.timestamps = <<>> THEN 0 ELSE h.timestamps[Len(h.timestamps)]

\* C1: in every reachable state every container's series (its cpu, memory
\* and timestamp lists) is at most history_window long.
C1_LengthWithinWindow ==
    \A c \in DOMAIN history :
        /\ Len(history[c].cpu) <= history_window
        /\ Len(history[c].memory) <= history_window
        /\ Len(history[c].timestamps) <= history_window

\* C2: while the window has not changed since a container's series was empty,
\* after N appended samples the series is the last min(N, W) of them, oldest
\* first, the cpu, memory and timestamp of a sample at the same position.
C2_LastMinNW ==
    \A c \in CIDs :
        wfixed[c] =>
            LET N == Len(arrived[c])
                k == Min(N, history_window)
                h == HistoryGet(history, c)
            IN  /\ Len(h.cpu) = k
                /\ Len(h.memory) = k
                /\ Len(h.timestamps) = k
                /\ \A i \in 1..k :
                      /\ h.cpu[i] = arrived[c][N - k + i].cpu
                      /\ h.memory[i] = arrived[c][N - k + i].memory_mb
                      /\ h.timestamps[i] = arrived[c][N - k + i].timestamp

\* C2's case: a collection of this behaviour appended the newest sample of a
\* series whose window is unchanged, and the series lost its oldest sample.
C2_Witness ==
    \E c \in CIDs :
        /\ wfixed[c]
        /\ clock > SeedCycles
        /\ Len(arrived[c]) > history_window
        /\ LastStamp(HistoryGet(history, c)) = clock
        /\ pc = "render"

\* C3: when all fetches of a collection have returned, the containers with a
\* sample are exactly the running containers whose stats fetch succeeded.
C3_ExactlySucceeding ==
    (pc = "fetch" /\ pending = {}) =>
        {c \in CIDs : results[c] # None} = {c \in CIDs : FetchSucceeded(c)}

\* C4: the update loop leaves the series of a container whose fetch failed
\* (or that has no result) as it was, and changes a series only by appending
\* that container's own sample and dropping samples at its front.
C4_FailedFetchLeavesSeries ==
    [][UpdateStep =>
          \A c \in CIDs :
              /\ (FetchFailed(c) \/ results[c] = None)
                     => HistoryGet(history', c) = HistoryGet(history, c)
              /\ (HistoryGet(history', c) # HistoryGet(history, c)) =>
                     /\ results[c] # None
                     /\ results[c][1].id = c
                     /\ LET old == Samples(HistoryGet(history, c))
                            new == Samples(HistoryGet(history', c))
                            all == Append(old, StoredSample(results[c][1]))
                        IN  new = SubSeq(all, Len(all) - Len(new) + 1, Len(all))
      ]_vars

\* C4's case: the loop has run in a collection in which the fetch of a
\* container with a series failed while another container delivered a sample.
C4_Witness ==
    /\ pc = "render"
    /\ \E c \in CIDs :
          /\ FetchFailed(c)
          /\ HistoryGet(history, c).cpu # <<>>
          /\ \E o \in CIDs \ {c} :
                /\ results[o] # None
                /\ LastStamp(HistoryGet(history, o)) = clock

\* C5: the step that processes Clear History leaves every container id with
\* an empty series, and no sample taken up to that moment is in the history
\* of any later state.
C5_ClearEmptiesAll ==
    [][/\ ClearStep => \A id \in CIDs : HistoryGet(history', id) = EmptySeries
       /\ \A id \in DOMAIN history' :
             /\ \A i \in DOMAIN history'[id].timestamps :
                   history'[id].timestamps[i] > cleared'.at
             /\ Len(history'[id].cpu) = Len(history'[id].timestamps)
             /\ Len(history'[id].memory) = Len(history'[id].timestamps)
      ]_vars

\* C5's case: a Clear History removed samples and a later collection has
\* appended a new one.
C5_Witness ==
    /\ cleared.n > 0
    /\ \E c \in CIDs : HistoryGet(history, c).cpu # <<>>

\* C6: the history changes only in the script's own thread, by Clear History
\* at the top of a run or by the update loop after every fetch has returned;
\* Clear History is never processed while a collection is in flight, and
\* when it is processed no result of a collection is left to be appended.
C6_SingleFlight ==
    [][/\ (history' # history) =>
             /\ pending = {}
             /\ (ClearStep /\ pc = "controls") \/ UpdateStep
       /\ ClearStep =>
             /\ pc = "controls"
             /\ pending = {}
             /\ results = NoResults
             /\ history' = EmptyHistory
             /\ pending' = {}
             /\ results' = NoResults
      ]_vars

\* C6's case: Clear History was clicked while one fetch of a collection has
\* returned a sample and another is still in flight.
C6_Witness ==
    /\ w_clear
    /\ pc = "fetch"
    /\ pending # {}
    /\ \E c \in CIDs : results[c] # None

\* The memory limit of the dictionary fetched for c is 0 or absent.
LimitZeroOrAbsent(c) ==
    /\ FetchSucceeded(c)
    /\ fetched[c][1].stats[1].mem_usage # <<>>
    /\ fetched[c][1].stats[1].mem_limit \in {<<>>, <<0>>}

\* C7: a running container whose stats report a memory limit of 0 or none
\* still gets a sample, with memory_percent 0.0, and the update appends it.
C7_ZeroLimitSampleKept ==
    \A c \in CIDs :
        LimitZeroOrAbsent(c) =>
            /\ results[c] # None
            /\ results[c][1].memory_percent.num = 0
            /\ (pc = "render") => LastStamp(HistoryGet(history, c)) = clock

\* The deltas of a snapshot, absent counters read as 0.
CpuDelta(d) == DictGet(d.total_usage, 0) - DictGet(d.pre_total_usage, 0)
SystemDelta(d) ==
    DictGet(d.system_cpu_usage, 0) - DictGet(d.pre_system_cpu_usage, 0)

\* C8: calculate_cpu_percent divides by a positive system_delta only, its
\* result is never negative, it is 0 when cpu_delta <= 0 or system_delta <= 0,
\* and the cpu value stored in the history is that result.
C8_CpuNeverNegative ==
    (cpu_pc = "done") =>
        /\ cpu_res[1].den > 0
        /\ cpu_res[1].num >= 0
        /\ (CpuDelta(cpu_d) <= 0 \/ SystemDelta(cpu_d) <= 0) => cpu_res[1].num = 0
        /\ \A c \in DOMAIN history :
              \A i \in DOMAIN history[c].cpu :
                 /\ history[c].cpu[i] = cpu_res[1]
                 /\ history[c].cpu[i].num >= 0
                 /\ history[c].cpu[i].den > 0

\* C8's case: a snapshot with a missing counter and a negative cpu_delta has
\* been normalised to 0 and stored.
C8_Witness ==
    /\ cpu_pc = "done"
    /\ cpu_d.total_usage = <<>>
    /\ CpuDelta(cpu_d) < 0
    /\ SystemDelta(cpu_d) > 0
    /\ cpu_res = Some(Ratio(0, 1))
    /\ history # EmptyHistory

\* The order of the phases of a run.  A run that collected (auto-refresh on)
\* goes from rendering to the sleep; a run that did not collect ends, or is
\* rerun by a Restart button.
PhaseOrder ==
    \/ pc' = pc
    \/ pc = "controls" /\ pc' = "list"
    \/ pc = "list" /\ pc' = (IF auto_refresh THEN "collect" ELSE "render")
    \/ pc = "collect" /\ pc' = "fetch"
    \/ pc = "fetch" /\ pc' = "render"
    \/ pc = "render" /\ auto_refresh /\ pc' = "sleep"
    \/ pc = "render" /\ ~auto_refresh /\ pc' \in {"done", "controls"}
    \/ pc \in {"sleep", "done"} /\ pc' = "controls"

\* What a collection does between its phases: it fetches for the running
\* containers of the listing, appends only when every fetch has completed or
\* failed, and the cards are drawn only in the rendering phase.
PhaseEffects ==
    /\ (pc = "collect" /\ pc' = "fetch")
           => pending' = {c \in CIDs : containers[c] = "running"}
    /\ (history' # history /\ pc # "controls") =>
           /\ UpdateStep
           /\ pending = {}
           /\ \A c \in CIDs : containers[c] = "running" => fetched[c] # None
    /\ (shown' # shown) => pc = "render"

C10_FormatExamples ==
    (fmt_pc = "done") =>
        /\ (fmt_size = 1023) => fmt_res = "1023.00 B"
        /\ (fmt_size = 1536) => fmt_res = "1.50 KB"
        /\ (fmt_size = 1048576) => fmt_res = "1.00 MB"
        /\ \A k \in 1..3 :
              (fmt_size = power ^ k) => fmt_res = "1.00 " \o power_labels[k] \o "B"

==========================================================================
